---- MODULE Spec2Model ----
(***************************************************************************)
(* A model of spark's Command.Run (cmd/xfn/spark/spark.go): one invocation *)
(* of a containerized Composition Function.  Run is a straight-line        *)
(* pipeline; every call it makes is one action, and the program counter pc *)
(* names the call that is about to be made.  The sandboxed OCI runtime is  *)
(* a child process that runs concurrently with Run between cmd.Start and   *)
(* cmd.Wait (both inside cmd.Output), and the clock of the context created *)
(* by context.WithTimeout advances concurrently with everything.           *)
(***************************************************************************)
EXTENDS Integers, Sequences, FiniteSets, TLC

\* ---------------------------------------------------------------- bounds
\* Largest reading of the clock, in seconds since context.WithTimeout.
MaxTime == 26
\* Most bytes the child writes to its standard output.
MaxOut == 2
\* Most bytes the child writes to its standard error.
MaxErrOut == 1

\* ------------------------------------------------------ program constants
errReadRequest == "cannot read request from stdin"
errUnmarshalRequest == "cannot unmarshal request data from stdin"
errNewBundleStore == "cannot create OCI runtime bundle store"
errNewDigestStore == "cannot create OCI image digest store"
errParseRef == "cannot parse OCI image reference"
errPull == "cannot pull OCI image"
errBundleFn == "cannot create OCI runtime bundle"
errMkRuntimeRootdir == "cannot make OCI runtime cache"
errRuntime == "OCI runtime error"
errCleanupBundle == "cannot cleanup OCI runtime bundle"
errMarshalResponse == "cannot marshal response data to stdout"
errWriteResponse == "cannot write response data to stdout"

ociRuntimeRoot == "runtime"

\* seconds
defaultTimeout == 25

\* ------------------------------------------------------------ input sets
\* Image references a request may carry; the empty string is what an unset
\* field decodes to, and it does not parse as a reference.
Images == {"", "registry.example/fn:v1"}
\* Timeouts (seconds) a request may carry; 0 is also the unset value.
Timeouts == {-1, 0, 1, 3}
\* Input payloads.
Inputs == {<<>>, <<1>>}
\* The bytes the child may write.
OutBytes == {7}
\* Identifiers uuid.NewString may return.
RunIDs == {"run-a", "run-b"}

\* ------------------------------------------------- request wire encoding
\* The request's fields on the wire: a tag byte, then the value.  The image
\* reference is carried as its index in ImageTable, the input payload as its
\* length and bytes, the timeout as its seconds.
Tag == [image |-> 10, input |-> 18, config |-> 34]

ImageTable == <<"registry.example/fn:v1">>
ImageCode(image) == CHOOSE c \in DOMAIN ImageTable : ImageTable[c] = image

ZeroReq == [image |-> "", input |-> <<>>, timeout |-> 0]

\* A serialized RunFunctionRequest; proto3 leaves a field at its zero value
\* off the wire, so the zero request is the empty byte string.
MarshalRequest(r) ==
  (IF r.image # "" THEN <<Tag.image, ImageCode(r.image)>> ELSE <<>>)
  \o (IF r.input # <<>> THEN <<Tag.input, Len(r.input)>> \o r.input ELSE <<>>)
  \o (IF r.timeout # 0 THEN <<Tag.config, r.timeout>> ELSE <<>>)

\* Bytes that are not a RunFunctionRequest: a length-delimited field cut
\* short.
Junk == <<Tag.input, 2, 1>>

\* proto.Unmarshal(bytes, r): the fields present overwrite r's, the fields
\* absent keep their value, and a field that cannot be read is an error.
RECURSIVE Unmarshal(_, _)
Unmarshal(bytes, r) ==
  LET n == Len(bytes)
      rest(k) == SubSeq(bytes, k, n)
  IN IF n = 0 THEN [ok |-> TRUE, req |-> r]
     ELSE IF n >= 2 /\ bytes[1] = Tag.image /\ bytes[2] \in DOMAIN ImageTable
       THEN Unmarshal(rest(3), [r EXCEPT !.image = ImageTable[bytes[2]]])
     ELSE IF n >= 2 /\ bytes[1] = Tag.input /\ n >= 2 + bytes[2]
       THEN Unmarshal(rest(3 + bytes[2]),
                      [r EXCEPT !.input = SubSeq(bytes, 3, 2 + bytes[2])])
     ELSE IF n >= 2 /\ bytes[1] = Tag.config
       THEN Unmarshal(rest(3), [r EXCEPT !.timeout = bytes[2]])
     ELSE [ok |-> FALSE, req |-> r]

\* req.GetImage() on the request; name.ParseReference rejects the empty
\* reference.
ParseReferenceOK(image) == image # ""

\* proto.Marshal of RunFunctionResponse{Output: out}: field 1, wire type 2
\* (tag byte 10), the length, the payload; nothing at all for an empty one.
MarshalResponse(out) ==
  IF out = <<>> THEN <<>> ELSE <<10, Len(out)>> \o out

\* The timeout Run arms the context with.
Timeout(t) == IF t = 0 THEN defaultTimeout ELSE t

\* ------------------------------------------------------------------ state
VARIABLES
  pc,        \* the call Run is about to make; "done" once Run has returned
  stdin,     \* the process's standard input: readable flag and bytes
  pb,        \* bytes read from stdin, later the marshalled response
  req,       \* the decoded request
  ctx,       \* the context made by context.WithTimeout
  now,       \* seconds elapsed since the context was made
  runID,     \* uuid.NewString()
  host,      \* the cache directory's host: overlay.Supported's answer
  s,         \* the selected store.Bundler
  b,         \* the Bundle returned by s.Bundle
  child,     \* the OCI runtime process of cmd
  out,       \* the standard output cmd.Output collected
  err,       \* the error Run returns (Nil while none)
  stdout,    \* bytes on the process's standard output
  trace,     \* the calls Run has made, in order, with their outcome
  others,    \* run identifiers held by other invocations running on the
             \* same cache directory
  \* crank's package update commands (cmd/crank/xpkg/update.go)
  ucmd,      \* the command: its kind, and its Name and Tag arguments
  upc,       \* the call the command's Run is about to make
  kube,      \* the object of that kind and name as the API server stores it
  prev,      \* the object kube.<Kind>().Get returned
  ureq,      \* the JSON of the patch
  res,       \* the object kube.<Kind>().Patch returned
  uerr,      \* the error the command's Run returns
  uout,      \* the lines on k.Stdout
  ulog,      \* the logger's debug lines
  utrace     \* the calls the command's Run has made, with their outcome

\* The state of spark's Run.
svars == <<pc, stdin, pb, req, ctx, now, runID, host, s, b, child, out, err,
           stdout, trace>>
\* The state of an update command.
uvars == <<ucmd, upc, kube, prev, ureq, res, uerr, uout, ulog, utrace>>
\* What no statement of spark's Run changes.
xvars == <<others, uvars>>

vars == <<svars, others, uvars>>

\* An error value: the message it was wrapped with, its cause, and what it
\* holds of the runtime process's streams (exec.ExitError.Stderr).
Nil == [msg |-> "", cause |-> "", stdout |-> <<>>, stderr |-> <<>>]
Wrap(cause, msg) ==
  [msg |-> msg, cause |-> cause, stdout |-> <<>>, stderr |-> <<>>]
\* The *exec.ExitError of cmd.Output(): c.Stderr is nil, so Output fills
\* ExitError.Stderr with what the process wrote to its standard error.
ExitError(cause, p) ==
  [msg |-> "", cause |-> cause, stdout |-> <<>>, stderr |-> p.stderr]

NoCtx == [made |-> FALSE, deadline |-> 0]
NoBundle == [id |-> "", bundler |-> "", released |-> FALSE]
NoChild == [state |-> "none", stdin |-> <<>>, stdout |-> <<>>,
            stderr |-> <<>>, hangs |-> FALSE, code |-> 0,
            root |-> "", bundle |-> "", name |-> "", ctx |-> NoCtx,
            started |-> 0]
\* ctx.Done() is closed.
Expired(c) == c.made /\ now >= c.deadline

\* One entry of the call history.
Call(op, line, ok, c) == [op |-> op, line |-> line, ok |-> ok, ctx |-> c]

\* A package object of the API server, its Spec.Package a string: a sequence
\* of tokens.
NoObject == [exists |-> FALSE, name |-> "", package |-> <<>>]
\* The JSON of a merge patch: the fields it sets.
NoPatch == [name |-> "", package |-> <<>>]

\* No update command is running.
UpdateIdle ==
  /\ ucmd = [kind |-> "", name |-> "", tag |-> <<>>]
  /\ upc = "idle"
  /\ kube = NoObject
  /\ prev = NoObject
  /\ ureq = NoPatch
  /\ res = NoObject
  /\ uerr = Nil
  /\ uout = <<>>
  /\ ulog = <<>>
  /\ utrace = <<>>

Init ==
  /\ others = {}
  /\ UpdateIdle
  /\ pc = "ReadAll"
  /\ \E readable \in BOOLEAN :
       \/ stdin = [readable |-> readable, bytes |-> Junk]
       \/ \E i \in Images, p \in Inputs, t \in Timeouts :
            stdin = [readable |-> readable,
                     bytes |-> MarshalRequest([image |-> i, input |-> p,
                                               timeout |-> t])]
  /\ pb = <<>>
  /\ req = ZeroReq
  /\ ctx = NoCtx
  /\ now = 0
  /\ runID = ""
  /\ host \in [overlay : BOOLEAN]
  /\ s = ""
  /\ b = NoBundle
  /\ child = NoChild
  /\ out = <<>>
  /\ err = Nil
  /\ stdout = <<>>
  /\ trace = <<>>

\* return errors.Wrap(cause, msg)
Return(cause, msg) ==
  /\ pc' = "done"
  /\ err' = Wrap(cause, msg)

\* return errors.Wrap(err, msg) for the error value err
ReturnWrapped(e, msg) ==
  /\ pc' = "done"
  /\ err' = [e EXCEPT !.msg = msg]

\* ---------------------------------------------------------------- actions
\* pb, err := io.ReadAll(os.Stdin)
ReadAll ==
  /\ pc = "ReadAll"
  /\ IF stdin.readable
       THEN /\ pb' = stdin.bytes
            /\ pc' = "Unmarshal"
            /\ err' = err
            /\ trace' = Append(trace, Call("ReadAll", 77, TRUE, ctx))
       ELSE /\ Return("read", errReadRequest)
            /\ pb' = pb
            /\ trace' = Append(trace, Call("ReadAll", 77, FALSE, ctx))
  /\ UNCHANGED <<stdin, req, ctx, now, runID, host, s, b, child, out, stdout>>
  /\ UNCHANGED xvars

\* UnmarshalRequest with the error of proto.Unmarshal dropped: Run goes on
\* with whatever was decoded.
UnmarshalRequestIgnoringErr ==
  /\ pc = "Unmarshal"
  /\ req' = Unmarshal(pb, ZeroReq).req
  /\ pc' = "WithTimeout"
  /\ err' = err
  /\ trace' = Append(trace,
                     Call("Unmarshal", 83, Unmarshal(pb, ZeroReq).ok, ctx))
  /\ UNCHANGED <<stdin, pb, ctx, now, runID, host, s, b, child, out, stdout>>
  /\ UNCHANGED xvars

\* proto.Unmarshal(pb, req)
UnmarshalRequest ==
  /\ pc = "Unmarshal"
  /\ IF Unmarshal(pb, ZeroReq).ok
       THEN /\ req' = Unmarshal(pb, ZeroReq).req
            /\ pc' = "WithTimeout"
            /\ err' = err
            /\ trace' = Append(trace, Call("Unmarshal", 83, TRUE, ctx))
       ELSE /\ Return("proto", errUnmarshalRequest)
            /\ req' = req
            /\ trace' = Append(trace, Call("Unmarshal", 83, FALSE, ctx))
  /\ UNCHANGED <<stdin, pb, ctx, now, runID, host, s, b, child, out, stdout>>
  /\ UNCHANGED xvars

\* t := req.GetRunFunctionConfig().GetTimeout().AsDuration(); t defaults to
\* defaultTimeout; ctx, cancel := context.WithTimeout(context.Background(), t)
WithTimeout ==
  /\ pc = "WithTimeout"
  /\ ctx' = [made |-> TRUE, deadline |-> now + Timeout(req.timeout)]
  /\ pc' = "NewString"
  /\ trace' = Append(trace, Call("WithTimeout", 91, TRUE, ctx'))
  /\ UNCHANGED <<stdin, pb, req, now, runID, host, s, b, child, out, err,
                 stdout>>
  /\ UNCHANGED xvars

\* One second passes on the context's clock.  The clock is read through
\* ctx.Done() alone, so it is followed up to the deadline and no further.
Tick ==
  /\ ctx.made
  /\ pc # "done"
  /\ now < MaxTime
  /\ ~Expired(ctx)
  /\ now' = now + 1
  /\ UNCHANGED <<pc, stdin, pb, req, ctx, runID, host, s, b, child, out, err,
                 stdout, trace>>
  /\ UNCHANGED xvars

\* runID := uuid.NewString().  The identifier is a random UUID, taken to be
\* one that no invocation now running holds.
NewString ==
  /\ pc = "NewString"
  /\ \E u \in RunIDs \ others : runID' = u
  /\ pc' = "NewBundler"
  /\ trace' = Append(trace, Call("NewString", 94, TRUE, ctx))
  /\ UNCHANGED <<stdin, pb, req, ctx, now, host, s, b, child, out, err,
                 stdout>>
  /\ UNCHANGED xvars

\* var s store.Bundler = uncompressed.NewBundler(c.CacheDir)
NewBundler ==
  /\ pc = "NewBundler"
  /\ s' = "uncompressed"
  /\ pc' = "Supported"
  /\ trace' = Append(trace, Call("NewBundler", 103, TRUE, ctx))
  /\ UNCHANGED <<stdin, pb, req, ctx, now, runID, host, b, child, out, err,
                 stdout>>
  /\ UNCHANGED xvars

\* if overlay.Supported(c.CacheDir) { ... }; if err != nil { ... } with the
\* err of the successful ReadAll when the probe is negative.
Supported ==
  /\ pc = "Supported"
  /\ pc' = IF host.overlay THEN "NewCachingBundler" ELSE "NewDigest"
  /\ trace' = Append(trace, Call("Supported", 104, host.overlay, ctx))
  /\ UNCHANGED <<stdin, pb, req, ctx, now, runID, host, s, b, child, out, err,
                 stdout>>
  /\ UNCHANGED xvars

\* NewCachingBundler falling back to the uncompressed bundler when the
\* overlay bundler cannot be made.
NewCachingBundlerFallback ==
  /\ pc = "NewCachingBundler"
  /\ \E ok \in BOOLEAN :
       /\ trace' = Append(trace, Call("NewCachingBundler", 105, ok, ctx))
       /\ s' = IF ok THEN "overlay" ELSE s
       /\ pc' = "NewDigest"
       /\ err' = err
  /\ UNCHANGED <<stdin, pb, req, ctx, now, runID, host, b, child, out,
                 stdout>>
  /\ UNCHANGED xvars

\* s, err = overlay.NewCachingBundler(c.CacheDir); if err != nil { return }
NewCachingBundler ==
  /\ pc = "NewCachingBundler"
  /\ \E ok \in BOOLEAN :
       /\ trace' = Append(trace, Call("NewCachingBundler", 105, ok, ctx))
       /\ IF ok
            THEN /\ s' = "overlay"
                 /\ pc' = "NewDigest"
                 /\ err' = err
            ELSE /\ s' = ""
                 /\ Return("overlay", errNewBundleStore)
  /\ UNCHANGED <<stdin, pb, req, ctx, now, runID, host, b, child, out,
                 stdout>>
  /\ UNCHANGED xvars

\* h, err := store.NewDigest(c.CacheDir)
NewDigest ==
  /\ pc = "NewDigest"
  /\ \E ok \in BOOLEAN :
       /\ trace' = Append(trace, Call("NewDigest", 111, ok, ctx))
       /\ IF ok
            THEN pc' = "ParseReference" /\ err' = err
            ELSE Return("digest", errNewDigestStore)
  /\ UNCHANGED <<stdin, pb, req, ctx, now, runID, host, s, b, child, out,
                 stdout>>
  /\ UNCHANGED xvars

\* ParseReference followed by the bundling at once, the pull left out.
ParseReferenceThenBundle ==
  /\ pc = "ParseReference"
  /\ trace' = Append(trace,
                     Call("ParseReference", 116, ParseReferenceOK(req.image),
                          ctx))
  /\ IF ParseReferenceOK(req.image)
       THEN pc' = "Bundle" /\ err' = err
       ELSE Return("reference", errParseRef)
  /\ UNCHANGED <<stdin, pb, req, ctx, now, runID, host, s, b, child, out,
                 stdout>>
  /\ UNCHANGED xvars

\* r, err := name.ParseReference(req.GetImage())
ParseReference ==
  /\ pc = "ParseReference"
  /\ trace' = Append(trace,
                     Call("ParseReference", 116, ParseReferenceOK(req.image),
                          ctx))
  /\ IF ParseReferenceOK(req.image)
       THEN pc' = "Image" /\ err' = err
       ELSE Return("reference", errParseRef)
  /\ UNCHANGED <<stdin, pb, req, ctx, now, runID, host, s, b, child, out,
                 stdout>>
  /\ UNCHANGED xvars

\* img, err := p.Image(ctx, r, req.GetImagePullConfig())
Image ==
  /\ pc = "Image"
  /\ \E ok \in BOOLEAN :
       /\ trace' = Append(trace, Call("Image", 122, ok, ctx))
       /\ IF ok
            THEN pc' = "Bundle" /\ err' = err
            ELSE Return("pull", errPull)
  /\ UNCHANGED <<stdin, pb, req, ctx, now, runID, host, s, b, child, out,
                 stdout>>
  /\ UNCHANGED xvars

\* b, err := s.Bundle(ctx, img, runID)
Bundle ==
  /\ pc = "Bundle"
  /\ \E ok \in BOOLEAN :
       /\ trace' = Append(trace, Call("Bundle", 127, ok, ctx))
       /\ IF ok
            THEN /\ b' = [id |-> runID, bundler |-> s, released |-> FALSE]
                 /\ pc' = "MkdirAll"
                 /\ err' = err
            ELSE /\ b' = NoBundle
                 /\ Return("bundle", errBundleFn)
  /\ UNCHANGED <<stdin, pb, req, ctx, now, runID, host, s, child, out,
                 stdout>>
  /\ UNCHANGED xvars

\* MkdirAll with its error dropped: Run goes on to start the runtime.
MkdirAllIgnoringErr ==
  /\ pc = "MkdirAll"
  /\ \E ok \in BOOLEAN : trace' = Append(trace, Call("MkdirAll", 133, ok, ctx))
  /\ pc' = "Start"
  /\ err' = err
  /\ UNCHANGED <<stdin, pb, req, ctx, now, runID, host, s, b, child, out,
                 stdout>>
  /\ UNCHANGED xvars

\* root := filepath.Join(c.CacheDir, ociRuntimeRoot); os.MkdirAll(root, 0700)
MkdirAll ==
  /\ pc = "MkdirAll"
  /\ \E ok \in BOOLEAN :
       /\ trace' = Append(trace, Call("MkdirAll", 133, ok, ctx))
       /\ IF ok
            THEN pc' = "Start" /\ err' = err
            ELSE pc' = "CleanupMkdirErr" /\ err' = Wrap("mkdir", "")
  /\ UNCHANGED <<stdin, pb, req, ctx, now, runID, host, s, b, child, out,
                 stdout>>
  /\ UNCHANGED xvars

\* b.Cleanup(): the release succeeds or fails.
Release(line, ok) ==
  /\ b' = [b EXCEPT !.released = ok]
  /\ trace' = Append(trace, Call("Cleanup", line, ok, ctx))

\* CleanupMkdirErr without the release: return errors.Wrap(err,
\* errMkRuntimeRootdir)
CleanupMkdirErrSkipped ==
  /\ pc = "CleanupMkdirErr"
  /\ ReturnWrapped(err, errMkRuntimeRootdir)
  /\ UNCHANGED <<stdin, pb, req, ctx, now, runID, host, s, b, child, out,
                 stdout, trace>>
  /\ UNCHANGED xvars

\* CleanupMkdirErr returning the error of a failed release in place of the
\* error of os.MkdirAll.
CleanupMkdirErrMasking ==
  /\ pc = "CleanupMkdirErr"
  /\ \E ok \in BOOLEAN :
       /\ Release(134, ok)
       /\ IF ok
            THEN Return(err.cause, errMkRuntimeRootdir)
            ELSE Return("cleanup", errCleanupBundle)
  /\ UNCHANGED <<stdin, pb, req, ctx, now, runID, host, s, child, out,
                 stdout>>
  /\ UNCHANGED xvars

\* _ = b.Cleanup(); return errors.Wrap(err, errMkRuntimeRootdir)
CleanupMkdirErr ==
  /\ pc = "CleanupMkdirErr"
  /\ \E ok \in BOOLEAN : Release(134, ok)
  /\ ReturnWrapped(err, errMkRuntimeRootdir)
  /\ UNCHANGED <<stdin, pb, req, ctx, now, runID, host, s, child, out,
                 stdout>>
  /\ UNCHANGED xvars

\* A context armed afresh for the runtime process, as if cmd were given
\* context.WithTimeout(context.Background(), t) of its own.
CmdCtxFresh == [made |-> TRUE, deadline |-> now + Timeout(req.timeout)]

\* The context handed to exec.CommandContext.
CmdCtx == ctx

\* cmd := exec.CommandContext(ctx, c.Runtime, "--root="+root, "run",
\* The last argument of the runtime's command line, the name of the sandbox
\* instance, were it the same for every invocation.
SandboxNameShared == "run-a"

\* The last argument of the runtime's command line: runID.
SandboxName == runID

\* "--bundle="+b.Path(), runID); cmd.Stdin = bytes.NewReader(req.GetInput());
\* the first half of cmd.Output(): cmd.Start().  Start refuses when the
\* context is already done, and may fail to spawn the runtime binary.
Start ==
  /\ pc = "Start"
  /\ IF Expired(CmdCtx)
       THEN /\ trace' = Append(trace, Call("Output", 146, FALSE, CmdCtx))
            /\ err' = Wrap("context deadline exceeded", "")
            /\ pc' = "CleanupRuntimeErr"
            /\ child' = child
       ELSE \E ok \in BOOLEAN :
              IF ok
                THEN /\ \E h \in BOOLEAN :
                          child' = [state |-> "running",
                                    stdin |-> req.input,
                                    stdout |-> <<>>, stderr |-> <<>>,
                                    hangs |-> h, code |-> 0,
                                    root |-> ociRuntimeRoot,
                                    bundle |-> b.id, name |-> SandboxName,
                                    ctx |-> CmdCtx, started |-> now]
                     /\ pc' = "Wait"
                     /\ UNCHANGED <<err, trace>>
                ELSE /\ trace' = Append(trace,
                                        Call("Output", 146, FALSE, CmdCtx))
                     /\ err' = Wrap("exec: not started", "")
                     /\ pc' = "CleanupRuntimeErr"
                     /\ child' = child
  /\ UNCHANGED <<stdin, pb, req, ctx, now, runID, host, s, b, out, stdout>>
  /\ UNCHANGED xvars

\* The runtime writes a byte to its standard output.
ChildWrite ==
  /\ child.state = "running"
  /\ Len(child.stdout) < MaxOut
  /\ \E byte \in OutBytes : child' = [child EXCEPT !.stdout = Append(@, byte)]
  /\ UNCHANGED <<pc, stdin, pb, req, ctx, now, runID, host, s, b, out, err,
                 stdout, trace>>
  /\ UNCHANGED xvars

\* The runtime writes a byte to its standard error.
ChildWriteErr ==
  /\ child.state = "running"
  /\ Len(child.stderr) < MaxErrOut
  /\ \E byte \in OutBytes : child' = [child EXCEPT !.stderr = Append(@, byte)]
  /\ UNCHANGED <<pc, stdin, pb, req, ctx, now, runID, host, s, b, out, err,
                 stdout, trace>>
  /\ UNCHANGED xvars

\* The runtime exits on its own, unless it is one that never does.
ChildExit ==
  /\ child.state = "running"
  /\ ~child.hangs
  /\ \E code \in {0, 1} :
       child' = [child EXCEPT !.state = "exited", !.code = code]
  /\ UNCHANGED <<pc, stdin, pb, req, ctx, now, runID, host, s, b, out, err,
                 stdout, trace>>
  /\ UNCHANGED xvars

\* Kill for a command made by exec.Command, which no context is bound to:
\* nothing ever kills the process.
KillUnbound ==
  /\ pc = "Wait"
  /\ child.state = "running"
  /\ FALSE
  /\ child' = [child EXCEPT !.state = "killed"]
  /\ UNCHANGED <<pc, stdin, pb, req, ctx, now, runID, host, s, b, out, err,
                 stdout, trace>>
  /\ UNCHANGED xvars

\* exec.CommandContext: once ctx is done the process is killed
\* (os.Process.Kill).
Kill ==
  /\ pc = "Wait"
  /\ child.state = "running"
  /\ Expired(child.ctx)
  /\ child' = [child EXCEPT !.state = "killed"]
  /\ UNCHANGED <<pc, stdin, pb, req, ctx, now, runID, host, s, b, out, err,
                 stdout, trace>>
  /\ UNCHANGED xvars

\* Wait for a command run with cmd.CombinedOutput(): what the process wrote
\* to its standard error is collected along with its standard output.
WaitCombinedOutput ==
  /\ pc = "Wait"
  /\ child.state \in {"exited", "killed"}
  /\ out' = child.stdout \o child.stderr
  /\ IF child.state = "exited" /\ child.code = 0
       THEN /\ pc' = "Cleanup"
            /\ err' = err
            /\ trace' = Append(trace, Call("Output", 146, TRUE, child.ctx))
       ELSE /\ pc' = "CleanupRuntimeErr"
            /\ trace' = Append(trace, Call("Output", 146, FALSE, child.ctx))
            /\ err' = ExitError("exit status 1", child)
  /\ UNCHANGED <<stdin, pb, req, ctx, now, runID, host, s, b, child, stdout>>
  /\ UNCHANGED xvars

\* Wait for a command whose Stderr is set (cmd.Stderr = os.Stderr): the
\* exit error holds nothing of the process's standard error.
WaitStderrInherited ==
  /\ pc = "Wait"
  /\ child.state \in {"exited", "killed"}
  /\ out' = child.stdout
  /\ IF child.state = "exited" /\ child.code = 0
       THEN /\ pc' = "Cleanup"
            /\ err' = err
            /\ trace' = Append(trace, Call("Output", 146, TRUE, child.ctx))
       ELSE /\ pc' = "CleanupRuntimeErr"
            /\ trace' = Append(trace, Call("Output", 146, FALSE, child.ctx))
            /\ err' = Wrap("exit status 1", "")
  /\ UNCHANGED <<stdin, pb, req, ctx, now, runID, host, s, b, child, stdout>>
  /\ UNCHANGED xvars

\* Wait with the error of cmd.Output() dropped: Run goes on to the release
\* and the response whatever became of the process.
WaitIgnoringErr ==
  /\ pc = "Wait"
  /\ child.state \in {"exited", "killed"}
  /\ out' = child.stdout
  /\ pc' = "Cleanup"
  /\ err' = err
  /\ trace' = Append(trace,
                     Call("Output", 146,
                          child.state = "exited" /\ child.code = 0, child.ctx))
  /\ UNCHANGED <<stdin, pb, req, ctx, now, runID, host, s, b, child, stdout>>
  /\ UNCHANGED xvars

\* The second half of out, err := cmd.Output(): cmd.Wait() returns when the
\* process is gone, with everything it wrote to its standard output.  A
\* killed process is reported as "signal: killed" or as the context's error,
\* depending on the Go release.
Wait ==
  /\ pc = "Wait"
  /\ child.state \in {"exited", "killed"}
  /\ out' = child.stdout
  /\ IF child.state = "exited" /\ child.code = 0
       THEN /\ pc' = "Cleanup"
            /\ err' = err
            /\ trace' = Append(trace, Call("Output", 146, TRUE, child.ctx))
       ELSE /\ pc' = "CleanupRuntimeErr"
            /\ trace' = Append(trace, Call("Output", 146, FALSE, child.ctx))
            /\ IF child.state = "killed"
                 THEN \/ err' = ExitError("signal: killed", child)
                      \/ err' = Wrap("context deadline exceeded", "")
                 ELSE err' = ExitError("exit status 1", child)
  /\ UNCHANGED <<stdin, pb, req, ctx, now, runID, host, s, b, child, stdout>>
  /\ UNCHANGED xvars

\* CleanupRuntimeErr folding the error of a failed release into the error it
\* returns.
CleanupRuntimeErrJoined ==
  /\ pc = "CleanupRuntimeErr"
  /\ \E ok \in BOOLEAN :
       /\ Release(148, ok)
       /\ Return(IF ok THEN err.cause ELSE "cleanup", errRuntime)
  /\ UNCHANGED <<stdin, pb, req, ctx, now, runID, host, s, child, out,
                 stdout>>
  /\ UNCHANGED xvars

\* CleanupRuntimeErr without the release: return errors.Wrap(err, errRuntime)
CleanupRuntimeErrSkipped ==
  /\ pc = "CleanupRuntimeErr"
  /\ ReturnWrapped(err, errRuntime)
  /\ UNCHANGED <<stdin, pb, req, ctx, now, runID, host, s, b, child, out,
                 stdout, trace>>
  /\ UNCHANGED xvars

\* _ = b.Cleanup(); return errors.Wrap(err, errRuntime)
CleanupRuntimeErr ==
  /\ pc = "CleanupRuntimeErr"
  /\ \E ok \in BOOLEAN : Release(148, ok)
  /\ ReturnWrapped(err, errRuntime)
  /\ UNCHANGED <<stdin, pb, req, ctx, now, runID, host, s, child, out,
                 stdout>>
  /\ UNCHANGED xvars

\* Cleanup with its error dropped: Run goes on to the response.
CleanupIgnoringErr ==
  /\ pc = "Cleanup"
  /\ \E ok \in BOOLEAN : Release(151, ok)
  /\ pc' = "Marshal"
  /\ err' = err
  /\ UNCHANGED <<stdin, pb, req, ctx, now, runID, host, s, child, out,
                 stdout>>
  /\ UNCHANGED xvars

\* if err := b.Cleanup(); err != nil { return errors.Wrap(err, ...) }
Cleanup ==
  /\ pc = "Cleanup"
  /\ \E ok \in BOOLEAN :
       /\ Release(151, ok)
       /\ IF ok
            THEN pc' = "Marshal" /\ err' = err
            ELSE Return("cleanup", errCleanupBundle)
  /\ UNCHANGED <<stdin, pb, req, ctx, now, runID, host, s, child, out,
                 stdout>>
  /\ UNCHANGED xvars

\* rsp := &v1alpha1.RunFunctionResponse{Output: out}; pb, err =
\* proto.Marshal(rsp).  Marshal refuses a message over its size limit; the
\* payloads of the model stand for payloads of any size.
Marshal ==
  /\ pc = "Marshal"
  /\ \E ok \in BOOLEAN :
       /\ trace' = Append(trace, Call("Marshal", 156, ok, ctx))
       /\ IF ok
            THEN /\ pb' = MarshalResponse(out)
                 /\ pc' = "Write"
                 /\ err' = err
            ELSE /\ pb' = <<>>
                 /\ Return("marshal", errMarshalResponse)
  /\ UNCHANGED <<stdin, req, ctx, now, runID, host, s, b, child, out, stdout>>
  /\ UNCHANGED xvars

\* _, err = os.Stdout.Write(pb); return errors.Wrap(err, errWriteResponse).
\* Write puts n of the bytes on the stream and fails unless it put them all
\* (an empty write can fail too); errors.Wrap of a nil error is nil.
Write ==
  /\ pc = "Write"
  /\ \E n \in 0..Len(pb), ok \in BOOLEAN :
       /\ n < Len(pb) => ~ok
       /\ (n = Len(pb) /\ Len(pb) > 0) => ok
       /\ stdout' = stdout \o SubSeq(pb, 1, n)
       /\ trace' = Append(trace, Call("Write", 160, ok, ctx))
       /\ pc' = "done"
       /\ err' = IF ok THEN Nil ELSE Wrap("write", errWriteResponse)
  /\ UNCHANGED <<stdin, pb, req, ctx, now, runID, host, s, b, child, out>>
  /\ UNCHANGED xvars

Next ==
  \/ ReadAll
  \/ UnmarshalRequest
  \/ WithTimeout
  \/ Tick
  \/ NewString
  \/ NewBundler
  \/ Supported
  \/ NewCachingBundler
  \/ NewDigest
  \/ ParseReference
  \/ Image
  \/ Bundle
  \/ MkdirAll
  \/ CleanupMkdirErr
  \/ Start
  \/ ChildWrite
  \/ ChildWriteErr
  \/ ChildExit
  \/ Kill
  \/ Wait
  \/ CleanupRuntimeErr
  \/ Cleanup
  \/ Marshal
  \/ Write

Spec == Init /\ [][Next]_vars

\* The statements of Run, of which at most one is enabled at a time.
RunStep ==
  \/ ReadAll \/ UnmarshalRequest \/ WithTimeout \/ NewString \/ NewBundler
  \/ Supported \/ NewCachingBundler \/ NewDigest \/ ParseReference \/ Image
  \/ Bundle \/ MkdirAll \/ CleanupMkdirErr \/ Start \/ Wait
  \/ CleanupRuntimeErr \/ Cleanup \/ Marshal \/ Write

\* Run keeps executing while it has a statement to execute, the clock keeps
\* running, and the goroutine that watches the context gets to kill the
\* process.  Nothing obliges the child to write or to exit.
LiveSpec ==
  Init /\ [][Next]_vars /\ WF_vars(RunStep) /\ WF_vars(Tick) /\ WF_vars(Kill)

\* ------------------------------------------- invocations side by side
\* Another invocation of spark on the same cache directory reaches its
\* uuid.NewString(): it holds an identifier no running invocation holds.
\* Identifiers do not run out: one is left for this invocation.
OtherBegin ==
  /\ \E u \in RunIDs \ (others \cup {runID}) :
       /\ runID = "" => RunIDs \ (others \cup {u}) # {}
       /\ others' = others \cup {u}
  /\ UNCHANGED <<svars, uvars>>

\* Another invocation returns, its Bundle released.
OtherEnd ==
  /\ \E u \in others : others' = others \ {u}
  /\ UNCHANGED <<svars, uvars>>

\* This invocation has a request it can read and decode, of an image whose
\* reference parses.
IsolationInit ==
  /\ Init
  /\ stdin.readable
  /\ LET r == Unmarshal(stdin.bytes, ZeroReq)
     IN r.ok /\ ParseReferenceOK(r.req.image) /\ r.req.timeout = 1
             /\ r.req.input = <<>>

IsolationNext == Next \/ OtherBegin \/ OtherEnd

IsolationSpec == IsolationInit /\ [][IsolationNext]_vars

\* ------------------------------------------ crank's package update commands
\* updateConfigCmd, updateProviderCmd and updateFunctionCmd have the same Run
\* but for the kind of object; the kind is a field of the command.
Kinds == {"configuration", "provider", "function"}
Names == {"pkg"}
\* The Tag argument, a string: a sequence of tokens.
Tags == {<<"v2">>, <<"sha256", "abc">>}
\* The Spec.Package strings an object can hold: a tagged reference, a
\* reference by digest, a bare repository, and the empty string.
Packages ==
  {<<"repo", ":", "v1">>, <<"repo", "@", "sha256", "old">>, <<"repo">>, <<>>}

\* The messages errKubeConfig and errKubeClient, declared elsewhere in the
\* package: the model has their names for their text.
errKubeConfig == "errKubeConfig"
errKubeClient == "errKubeClient"

\* The errors of the API server: a StatusError of code 404, and any other.
StatusNotFound == Wrap("NotFound", "")
StatusOther == Wrap("Forbidden", "")

\* warnIfNotFound(err): the error of an absent object is no error any more,
\* every other error is itself.
warnIfNotFound(e) == IF e = StatusNotFound THEN Nil ELSE e

\* errors.Wrap(err, msg): nil for a nil err.
WrapErr(e, msg) == IF e = Nil THEN Nil ELSE [e EXCEPT !.msg = msg]

\* strings.HasPrefix(t, p), for a prefix that is one token.
HasPrefix(t, p) == Len(t) > 0 /\ t[1] = p

\* name.ParseReference(pkg, name.WithDefaultRegistry("")): a digest reference
\* where the string has an "@", a tag reference otherwise, of tag "latest"
\* where the string names no tag.
ParseReferenceOf(pkg) ==
  IF Len(pkg) = 1
    THEN [ok |-> TRUE, repo |-> pkg[1], sep |-> ":", id |-> <<"latest">>]
  ELSE IF Len(pkg) = 3 /\ pkg[2] = ":"
    THEN [ok |-> TRUE, repo |-> pkg[1], sep |-> ":", id |-> <<pkg[3]>>]
  ELSE IF Len(pkg) = 4 /\ pkg[2] = "@" /\ pkg[3] = "sha256"
    THEN [ok |-> TRUE, repo |-> pkg[1], sep |-> "@", id |-> <<pkg[3], pkg[4]>>]
  ELSE [ok |-> FALSE, repo |-> "", sep |-> "", id |-> <<>>]

\* pkgReference.Context().Digest(c.Tag).Name() for a Tag that begins with
\* "sha256", pkgReference.Context().Tag(c.Tag).Name() for any other.
NewPkg(ref, tag) ==
  IF HasPrefix(tag, "sha256") THEN <<ref.repo, "@">> \o tag
  ELSE <<ref.repo, ":">> \o tag

\* json.Marshal of a package object.
JsonMarshal(obj) == [name |-> obj.name, package |-> obj.package]

\* The line "<kind>/<name> updated\n".
UpdatedLine(kind, n) == <<kind, "/", n, "updated">>

\* logger.Debug(msg, "error", e)
Debug(msg, e) == [msg |-> msg, error |-> e]
\* A call of Run and its outcome.
UCall(op, e) == [op |-> op, ok |-> e = Nil, error |-> e]

\* The messages of the three commands.
FailedToUpdate ==
  [configuration |-> "Failed to update configuration",
   provider |-> "Failed to update provider",
   function |-> "Failed to update function"]
CannotUpdate ==
  [configuration |-> "cannot update configuration",
   provider |-> "cannot update provider",
   function |-> "cannot update function"]
FoundPrevious ==
  [configuration |-> "Found previous configuration object",
   provider |-> "Found previous provider object",
   function |-> "Found previous function object"]

\* Every path of Run from a call that failed, but with the error as it came:
\* logger.Debug("Failed to update <kind>", "error", err); return
\* errors.Wrap(err, "cannot update <kind>")
UpdateFailedUnfiltered(e) ==
  /\ ulog' = Append(ulog, Debug(<<FailedToUpdate[ucmd.kind]>>, e))
  /\ uerr' = WrapErr(e, CannotUpdate[ucmd.kind])
  /\ upc' = "done"

\* Every path of Run from a call that failed: err = warnIfNotFound(err);
\* logger.Debug("Failed to update <kind>", "error", err); return
\* errors.Wrap(err, "cannot update <kind>")
UpdateFailed(e) ==
  /\ ulog' = Append(ulog, Debug(<<FailedToUpdate[ucmd.kind]>>,
                                warnIfNotFound(e)))
  /\ uerr' = WrapErr(warnIfNotFound(e), CannotUpdate[ucmd.kind])
  /\ upc' = "done"

\* A user runs one of the update commands, against an API server that holds
\* the object or does not.
UpdateInit ==
  /\ others = {}
  /\ pc = "idle"
  /\ stdin = [readable |-> FALSE, bytes |-> <<>>]
  /\ pb = <<>>
  /\ req = ZeroReq
  /\ ctx = NoCtx
  /\ now = 0
  /\ runID = ""
  /\ host = [overlay |-> FALSE]
  /\ s = ""
  /\ b = NoBundle
  /\ child = NoChild
  /\ out = <<>>
  /\ err = Nil
  /\ stdout = <<>>
  /\ trace = <<>>
  /\ ucmd \in [kind : Kinds, name : Names, tag : Tags]
  /\ upc = "GetConfig"
  /\ \/ kube = NoObject
     \/ \E p \in Packages :
          kube = [exists |-> TRUE, name |-> ucmd.name, package |-> p]
  /\ prev = NoObject
  /\ ureq = NoPatch
  /\ res = NoObject
  /\ uerr = Nil
  /\ uout = <<>>
  /\ ulog = <<>>
  /\ utrace = <<>>

\* kubeConfig, err := ctrl.GetConfig()
UpdateGetConfig ==
  /\ upc = "GetConfig"
  /\ \E e \in {Nil, Wrap("kubeconfig", "")} :
       /\ utrace' = Append(utrace, UCall("GetConfig", e))
       /\ IF e = Nil
            THEN /\ ulog' = Append(ulog, Debug(<<"Found kubeconfig">>, Nil))
                 /\ upc' = "NewForConfig"
                 /\ uerr' = uerr
            ELSE /\ ulog' = Append(ulog, Debug(<<errKubeConfig>>, e))
                 /\ uerr' = WrapErr(e, errKubeConfig)
                 /\ upc' = "done"
  /\ UNCHANGED <<ucmd, kube, prev, ureq, res, uout>>
  /\ UNCHANGED <<svars, others>>

\* kube, err := clientpkgv1.NewForConfig(kubeConfig)
UpdateNewForConfig ==
  /\ upc = "NewForConfig"
  /\ \E e \in {Nil, Wrap("client", "")} :
       /\ utrace' = Append(utrace, UCall("NewForConfig", e))
       /\ IF e = Nil
            THEN /\ ulog' = Append(ulog,
                                   Debug(<<"Created kubernetes client">>, Nil))
                 /\ upc' = "Get"
                 /\ uerr' = uerr
            ELSE /\ ulog' = Append(ulog, Debug(<<errKubeClient>>, e))
                 /\ uerr' = WrapErr(e, errKubeClient)
                 /\ upc' = "done"
  /\ UNCHANGED <<ucmd, kube, prev, ureq, res, uout>>
  /\ UNCHANGED <<svars, others>>

\* prevConf, err := kube.Configurations().Get(context.Background(), c.Name,
\* metav1.GetOptions{}), and the like for a Provider and a Function.
UpdateGet ==
  /\ upc = "Get"
  /\ \E e \in (IF kube.exists THEN {Nil, StatusOther}
                ELSE {StatusNotFound, StatusOther}) :
       /\ utrace' = Append(utrace, UCall("Get", e))
       /\ IF e = Nil
            THEN /\ prev' = kube
                 /\ ulog' = Append(ulog,
                                   Debug(<<FoundPrevious[ucmd.kind]>>, Nil))
                 /\ upc' = "ParseReference"
                 /\ uerr' = uerr
            ELSE /\ prev' = prev
                 /\ UpdateFailed(e)
  /\ UNCHANGED <<ucmd, kube, ureq, res, uout>>
  /\ UNCHANGED <<svars, others>>

\* UpdateParseReference with the error of name.ParseReference dropped: Run
\* goes on with the reference it was given.
UpdateParseReferenceIgnoringErr ==
  /\ upc = "ParseReference"
  /\ LET r == ParseReferenceOf(prev.package)
     IN /\ utrace' = Append(utrace,
                            UCall("ParseReference",
                                  IF r.ok THEN Nil ELSE Wrap("parse", "")))
        /\ prev' = [prev EXCEPT !.package = NewPkg(r, ucmd.tag)]
        /\ upc' = "Marshal"
        /\ UNCHANGED <<uerr, ulog>>
  /\ UNCHANGED <<ucmd, kube, ureq, res, uout>>
  /\ UNCHANGED <<svars, others>>

\* pkgReference, err := name.ParseReference(pkg,
\* name.WithDefaultRegistry("")); newPkg as the Tag argument has it;
\* prevConf.Spec.Package = newPkg
UpdateParseReference ==
  /\ upc = "ParseReference"
  /\ LET r == ParseReferenceOf(prev.package)
     IN IF r.ok
          THEN /\ utrace' = Append(utrace, UCall("ParseReference", Nil))
               /\ prev' = [prev EXCEPT !.package = NewPkg(r, ucmd.tag)]
               /\ upc' = "Marshal"
               /\ UNCHANGED <<uerr, ulog>>
          ELSE /\ utrace' = Append(utrace,
                                   UCall("ParseReference", Wrap("parse", "")))
               /\ prev' = prev
               /\ UpdateFailed(Wrap("parse", ""))
  /\ UNCHANGED <<ucmd, kube, ureq, res, uout>>
  /\ UNCHANGED <<svars, others>>

\* req, err := json.Marshal(prevConf)
UpdateMarshal ==
  /\ upc = "Marshal"
  /\ \E e \in {Nil, Wrap("json", "")} :
       /\ utrace' = Append(utrace, UCall("Marshal", e))
       /\ IF e = Nil
            THEN /\ ureq' = JsonMarshal(prev)
                 /\ upc' = "Patch"
                 /\ UNCHANGED <<uerr, ulog>>
            ELSE /\ ureq' = ureq
                 /\ UpdateFailed(e)
  /\ UNCHANGED <<ucmd, kube, prev, res, uout>>
  /\ UNCHANGED <<svars, others>>

\* res, err := kube.Configurations().Patch(context.Background(), c.Name,
\* types.MergePatchType, req, metav1.PatchOptions{}): the server sets the
\* fields of the patch in the object it stores, when it stores one.
UpdatePatch ==
  /\ upc = "Patch"
  /\ \E e \in (IF kube.exists THEN {Nil, StatusOther}
                ELSE {StatusNotFound, StatusOther}) :
       /\ utrace' = Append(utrace, UCall("Patch", e))
       /\ IF e = Nil
            THEN /\ kube' = [kube EXCEPT !.package = ureq.package]
                 /\ res' = kube'
                 /\ upc' = "Fprintf"
                 /\ UNCHANGED <<uerr, ulog>>
            ELSE /\ UNCHANGED <<kube, res>>
                 /\ UpdateFailed(e)
  /\ UNCHANGED <<ucmd, prev, ureq, uout>>
  /\ UNCHANGED <<svars, others>>

\* _, err = fmt.Fprintf(k.Stdout, "%s/%s updated\n",
\* strings.ToLower(v1.ConfigurationGroupKind), res.GetName()); return err
UpdateFprintf ==
  /\ upc = "Fprintf"
  /\ \E e \in {Nil, Wrap("write", "")} :
       /\ utrace' = Append(utrace, UCall("Fprintf", e))
       /\ uout' = IF e = Nil
                    THEN Append(uout, UpdatedLine(ucmd.kind, res.name))
                    ELSE uout
       /\ uerr' = e
       /\ upc' = "done"
  /\ UNCHANGED <<ucmd, kube, prev, ureq, res, ulog>>
  /\ UNCHANGED <<svars, others>>

\* Someone else deletes the object while the command runs.
DeleteObject ==
  /\ upc \notin {"idle", "done"}
  /\ kube.exists
  /\ kube' = [kube EXCEPT !.exists = FALSE]
  /\ UNCHANGED <<ucmd, upc, prev, ureq, res, uerr, uout, ulog, utrace>>
  /\ UNCHANGED <<svars, others>>

UpdateNext ==
  \/ UpdateGetConfig
  \/ UpdateNewForConfig
  \/ UpdateGet
  \/ UpdateParseReference
  \/ UpdateMarshal
  \/ UpdatePatch
  \/ UpdateFprintf
  \/ DeleteObject

UpdateSpec == UpdateInit /\ [][UpdateNext]_vars

\* ------------------------------------------------------- the call history
Returned == pc = "done"
Failing == Returned /\ err # Nil

\* The entries of the history that are calls of op.
Calls(op) == {i \in DOMAIN trace : trace[i].op = op}
\* overlay.Supported answers a question; every other call that is not ok
\* has failed.
FailedCalls == {i \in DOMAIN trace : ~trace[i].ok /\ trace[i].op # "Supported"}
Succeeded(op) == \E i \in Calls(op) : trace[i].ok
FailedAt(op) == \E i \in Calls(op) : i \in FailedCalls

\* s.Bundle returned a Bundle to Run.
BundleCreated == Succeeded("Bundle")

\* ----------------------------------------------------------------- claims

\* C1: a Bundle that Bundler.Bundle returned is released by exactly one call
\* of Cleanup before Run returns, on every exit path: Cleanup is never called
\* twice, never called without a Bundle, and never skipped once a Bundle
\* exists.
C1_BundleReleasedExactlyOnce ==
  /\ Cardinality(Calls("Cleanup")) <= 1
  /\ \A i \in Calls("Cleanup") : \E j \in Calls("Bundle") : j < i /\ trace[j].ok
  /\ Returned => (BundleCreated <=> Cardinality(Calls("Cleanup")) = 1)

\* Run has returned the error of a runtime that was killed at the deadline,
\* and the Bundle has had its one Cleanup call.
C1_Witness ==
  /\ Returned
  /\ err.msg = errRuntime
  /\ child.state = "killed"
  /\ Cardinality(Calls("Cleanup")) = 1

\* C2 (as stated): whenever Run returns a non-nil error the output stream
\* holds no byte of a Response.
C2_NoResponseByteOnFailure == Failing => stdout = <<>>

\* C2 (amended): bytes reach the output stream only by the final write, after
\* every earlier call has succeeded; a Run that fails anywhere before that
\* write leaves the stream empty, and a Run whose write fails leaves at most
\* a proper prefix of the Response on it.
C2_NoResponseByteBeforeWrite ==
  /\ stdout # <<>> =>
       /\ Calls("Write") # {}
       /\ \A i \in FailedCalls : trace[i].op = "Write"
       /\ \A op \in {"ReadAll", "Unmarshal", "Image", "Bundle", "MkdirAll",
                     "Output", "Cleanup", "Marshal"} : Succeeded(op)
  /\ (Failing /\ err.msg # errWriteResponse) => stdout = <<>>
  /\ (Failing /\ err.msg = errWriteResponse) =>
       /\ Len(stdout) <= Len(pb)
       /\ stdout = SubSeq(pb, 1, Len(stdout))
       /\ Len(pb) > 0 => Len(stdout) < Len(pb)

\* Run has returned the write error with part of the Response on the stream.
C2_Witness ==
  /\ Failing
  /\ err.msg = errWriteResponse
  /\ stdout # <<>>

\* The errors of a process killed at the deadline.
TimeoutCauses == {"signal: killed", "context deadline exceeded"}

\* C3: a runtime process that never exits on its own is killed once the
\* deadline has expired and not before, Run then returns the execution error
\* of a killed process, and Run never returns while the process is running.
C3_TimeoutEnforced ==
  /\ [](Returned => child.state # "running")
  /\ [](child.state = "killed" => now >= child.ctx.deadline)
  /\ [](child.state = "running" /\ child.hangs =>
          <>(/\ Returned
             /\ err.msg = errRuntime
             /\ err.cause \in TimeoutCauses
             /\ child.state = "killed"))

\* Run has returned after a process that never exits was killed.
C3_Witness ==
  /\ Returned
  /\ child.hangs
  /\ child.state = "killed"
  /\ err.msg = errRuntime

\* The release of the Bundle was attempted and failed.
CleanupFailed == FailedAt("Cleanup")

\* What Run returns for a failure of the call at the line.
WrappedAs(op) ==
  CASE op = "MkdirAll" -> errMkRuntimeRootdir
    [] op = "Output" -> errRuntime

\* What the failed call itself reported.
CausesOf(op) ==
  CASE op = "MkdirAll" -> {"mkdir"}
    [] op = "Output" -> TimeoutCauses \cup {"exit status 1", "exec: not started"}

\* C4: when the creation of the runtime root or the execution fails and the
\* release of the Bundle fails as well, Run returns the error of the step
\* that failed first, never the Cleanup error.
C4_CleanupFailureDoesNotMask ==
  \A op \in {"MkdirAll", "Output"} :
    (Returned /\ FailedAt(op) /\ CleanupFailed) =>
      /\ err.msg = WrappedAs(op)
      /\ err.cause \in CausesOf(op)

\* Run has returned the runtime-root error although the release failed too.
C4_Witness ==
  /\ Returned
  /\ FailedAt("MkdirAll")
  /\ CleanupFailed
  /\ err.msg = errMkRuntimeRootdir

\* The failure of the release shows in what Run hands back.
CleanupFailureSurfaced == err.msg = errCleanupBundle \/ err.cause = "cleanup"

\* C5 (as stated): when execution or the creation of the runtime root fails
\* and the release then fails too, the release's failure is reported along
\* with the primary error.
C5_CleanupFailureSurfaced ==
  (Returned /\ (FailedAt("MkdirAll") \/ FailedAt("Output")) /\ CleanupFailed)
    => CleanupFailureSurfaced

\* C5 (amended): when execution or the creation of the runtime root fails and
\* the release then fails too, the release's failure is discarded: Run hands
\* back the primary error alone and writes nothing, so nothing Run returns or
\* writes tells a failed release from a successful one.
C5_CleanupFailureDiscarded ==
  (Returned /\ (FailedAt("MkdirAll") \/ FailedAt("Output")) /\ CleanupFailed)
    => /\ ~CleanupFailureSurfaced
       /\ err # Nil
       /\ stdout = <<>>

\* Run has returned the execution error of a process that exited nonzero,
\* and the release failed.
C5_Witness ==
  /\ Returned
  /\ FailedAt("Output")
  /\ child.state = "exited"
  /\ CleanupFailed

\* C6: when the runtime exits successfully and the release of the Bundle
\* fails, Run returns the Cleanup error and the output is neither marshalled
\* nor written.
C6_CleanupErrorDecides ==
  (Returned /\ Succeeded("Output") /\ CleanupFailed) =>
    /\ err.msg = errCleanupBundle
    /\ err.cause = "cleanup"
    /\ Calls("Marshal") = {}
    /\ Calls("Write") = {}
    /\ stdout = <<>>

\* Run has returned after a process that wrote output and exited with code 0
\* and a release that failed.
C6_Witness ==
  /\ Returned
  /\ Succeeded("Output")
  /\ out # <<>>
  /\ CleanupFailed

\* The context that context.WithTimeout returned, as the history has it.
MadeCtx == trace[CHOOSE i \in Calls("WithTimeout") : TRUE].ctx

\* C7: the deadline is set by a single context.WithTimeout, from the
\* request's timeout or 25 seconds when that is zero; the pull, the bundling
\* and the runtime process are all given that context, unchanged; and the
\* process is killed from the moment that one deadline has passed, however
\* much of the time the pull and the bundling took.
C7_OneDeadline ==
  /\ [](/\ Cardinality(Calls("WithTimeout")) <= 1
        /\ ctx.made <=> Calls("WithTimeout") # {}
        /\ ctx.made =>
             /\ ctx = MadeCtx
             /\ ctx.deadline = IF req.timeout = 0 THEN 25 ELSE req.timeout
        /\ \A i \in Calls("Image") \cup Calls("Bundle") \cup Calls("Output") :
             trace[i].ctx.made /\ trace[i].ctx = MadeCtx
        /\ child.state # "none" => child.ctx = MadeCtx)
  /\ [][child.state = "running" /\ child'.state = "killed"
          => now >= MadeCtx.deadline]_vars
  /\ [][child.state = "none" /\ child'.state = "running"
          => now < MadeCtx.deadline]_vars

\* The runtime was started when 2 seconds of a 3 second timeout had gone by,
\* and was killed 1 second later.
C7_Witness ==
  /\ child.state = "killed"
  /\ req.timeout = 3
  /\ child.started = 2
  /\ now = 3

\* The pipeline step a call belongs to (0: the call is part of no step).
StepNames == <<"ReadRequest", "SelectBundler", "ResolveImage", "BuildBundle",
               "Execute", "Cleanup", "WriteResponse">>
StepOf(op) ==
  CASE op \in {"ReadAll", "Unmarshal"} -> 1
    [] op \in {"NewBundler", "Supported", "NewCachingBundler"} -> 2
    [] op \in {"NewDigest", "ParseReference", "Image"} -> 3
    [] op = "Bundle" -> 4
    [] op \in {"MkdirAll", "Output"} -> 5
    [] op = "Cleanup" -> 6
    [] op \in {"Marshal", "Write"} -> 7
    [] OTHER -> 0

\* The entries of the history that belong to a pipeline step.
StepCalls == {i \in DOMAIN trace : StepOf(trace[i].op) # 0}
\* The release of the Bundle on the way out of a failed Run.
ReleaseOnFailure == {i \in Calls("Cleanup") : trace[i].line \in {134, 148}}

\* C8: the calls of Run come in the order of the steps ReadRequest,
\* SelectBundler, ResolveImage, BuildBundle, Execute, Cleanup, WriteResponse
\* and no call is made twice; a step is entered only after every call of
\* every earlier step has succeeded, none of them left out.  The release of
\* the Bundle on the way out of a failed Run belongs to the failure, not to
\* the Cleanup step, and comes after the bundling too.
C8_StrictlySequential ==
  /\ LET InStep(e) == StepOf(e.op) # 0
         calls == SelectSeq(trace, InStep)
         step == [i \in DOMAIN calls |-> StepOf(calls[i].op)]
         release(i) == calls[i].op = "Cleanup" /\ calls[i].line \in {134, 148}
         failed(i) == ~calls[i].ok /\ calls[i].op # "Supported"
     IN /\ \A i, j \in DOMAIN calls : i < j => calls[i].op # calls[j].op
        /\ calls # <<>> => step[1] = 1
        /\ \A j \in 2..Len(calls) :
             /\ step[j - 1] <= step[j]
             /\ ~release(j) => /\ step[j] <= step[j - 1] + 1
                                /\ ~failed(j - 1)
                                /\ ~release(j - 1)
  /\ Succeeded("Bundle") => Succeeded("Image")
  /\ Calls("Output") # {} => Succeeded("Bundle")
  /\ Calls("Write") # {} => Succeeded("Output")
  /\ \A j \in ReleaseOnFailure :
       \E i \in Calls("Bundle") : i < j /\ trace[i].ok

\* Run has gone through all seven steps.
C8_Witness ==
  /\ Returned
  /\ \A k \in DOMAIN StepNames : \E i \in StepCalls : StepOf(trace[i].op) = k

\* The category of an error Run returns.
Category(msg) ==
  CASE msg \in {errReadRequest, errUnmarshalRequest} -> "Input"
    [] msg \in {errNewBundleStore, errNewDigestStore} -> "Store-initialization"
    [] msg = errParseRef -> "Reference"
    [] msg = errPull -> "Pull"
    [] msg = errBundleFn -> "Bundle"
    [] msg = errMkRuntimeRootdir -> "Runtime-setup"
    [] msg = errRuntime -> "Execution"
    [] msg = errCleanupBundle -> "Cleanup"
    [] msg \in {errMarshalResponse, errWriteResponse} -> "Output"
    [] OTHER -> "none"

\* The category of a failure of the call.
CategoryOfCall(op) ==
  CASE op \in {"ReadAll", "Unmarshal"} -> "Input"
    [] op \in {"NewCachingBundler", "NewDigest"} -> "Store-initialization"
    [] op = "ParseReference" -> "Reference"
    [] op = "Image" -> "Pull"
    [] op = "Bundle" -> "Bundle"
    [] op = "MkdirAll" -> "Runtime-setup"
    [] op = "Output" -> "Execution"
    [] op = "Cleanup" -> "Cleanup"
    [] op \in {"Marshal", "Write"} -> "Output"
    [] OTHER -> "none"

\* The first call that failed.
FirstFailure == CHOOSE i \in FailedCalls : \A j \in FailedCalls : i <= j

\* C9: the first call that fails decides the category of the error Run
\* returns, and Run returns no error when no call failed; no call is made
\* twice; and after the first failure Run makes no call but the one release
\* of a Bundle it already holds.
C9_FailFast ==
  /\ \A i, j \in DOMAIN trace : i < j => trace[i].op # trace[j].op
  /\ Returned /\ FailedCalls = {} => err = Nil
  /\ FailedCalls # {} =>
       LET first == FirstFailure
       IN /\ Returned => Category(err.msg) = CategoryOfCall(trace[first].op)
          /\ Len(trace) <= first + 1
          /\ \A j \in (first + 1)..Len(trace) :
               /\ j \in ReleaseOnFailure
               /\ Succeeded("Bundle")
               /\ b.id = runID

\* Run has returned the execution error after the execution failed and the
\* release that followed failed too.
C9_Witness ==
  /\ Returned
  /\ Cardinality(FailedCalls) = 2
  /\ trace[FirstFailure].op = "Output"
  /\ Category(err.msg) = "Execution"

\* The bundler the probe of the cache directory calls for.
Probed == IF host.overlay THEN "overlay" ELSE "uncompressed"

\* C10: the cache directory is probed once; every Bundle is made by the
\* overlay bundler when the probe is positive and by the uncompressed one
\* when it is not; and when the probe is positive and the overlay bundler
\* cannot be made, Run returns the store-initialization error and bundles
\* with nothing.
C10_BundlerSelectedOnce ==
  /\ Cardinality(Calls("Supported")) <= 1
  /\ \A i \in Calls("Supported") : trace[i].ok = host.overlay
  /\ Calls("NewCachingBundler") # {} =>
       host.overlay /\ Calls("Supported") # {}
  /\ Calls("Bundle") # {} => Calls("Supported") # {} /\ s = Probed
  /\ BundleCreated => b.bundler = Probed
  /\ FailedAt("NewCachingBundler") =>
       /\ Returned
       /\ err.msg = errNewBundleStore
       /\ Calls("Bundle") = {}
       /\ s # "uncompressed"

\* Run has returned the store-initialization error of an overlay bundler
\* that could not be made on a host that supports overlays.
C10_Witness ==
  /\ Returned
  /\ host.overlay
  /\ FailedAt("NewCachingBundler")

\* What a reader of the output stream decodes: the Output field of the one
\* RunFunctionResponse the bytes hold, the empty payload for no bytes, and
\* nothing ("ok" is FALSE) for bytes that are no Response.
UnmarshalResponse(bytes) ==
  IF bytes = <<>> THEN [ok |-> TRUE, output |-> <<>>]
  ELSE IF Len(bytes) >= 2 /\ bytes[1] = 10 /\ bytes[2] = Len(bytes) - 2
    THEN [ok |-> TRUE, output |-> SubSeq(bytes, 3, Len(bytes))]
  ELSE [ok |-> FALSE, output |-> <<>>]

\* C11: when Run returns without error it has written to the output stream
\* once, the stream decodes as one Response whose output is all the runtime
\* process wrote to its standard output, nothing of what it wrote to its
\* standard error, and the process was given the input payload of the
\* request on standard input.
C11_ResponseIsCapturedStdout ==
  (Returned /\ err = Nil) =>
    /\ Cardinality(Calls("Write")) = 1
    /\ UnmarshalResponse(stdout).ok
    /\ UnmarshalResponse(stdout).output = child.stdout
    /\ child.state = "exited" /\ child.code = 0
    /\ Unmarshal(stdin.bytes, ZeroReq).ok
    /\ child.stdin = Unmarshal(stdin.bytes, ZeroReq).req.input

\* Run has returned without error after a process that was given a
\* non-empty input and wrote to both of its streams.
C11_Witness ==
  /\ Returned
  /\ err = Nil
  /\ child.stdin # <<>>
  /\ Len(child.stdout) = MaxOut
  /\ child.stderr # <<>>

\* The runtime process exited on its own with a nonzero code, and Run has
\* returned.
NonzeroExit == Returned /\ child.state = "exited" /\ child.code # 0

\* C12 (as stated): the execution error of a nonzero exit carries the output
\* the process had written, the output that would have been the result, and
\* that output is not written as a Response.
C12_ErrorCarriesCapturedOutput ==
  NonzeroExit =>
    /\ err.msg = errRuntime
    /\ err.stdout = child.stdout
    /\ stdout = <<>>

\* C12 (amended): a nonzero exit makes Run return the execution error; the
\* error holds what the process wrote to its standard error and nothing of
\* its standard output, which is dropped: it is neither in the error nor
\* marshalled nor written as a Response.
C12_CapturedOutputDropped ==
  NonzeroExit =>
    /\ err.msg = errRuntime
    /\ err.cause = "exit status 1"
    /\ err.stderr = child.stderr
    /\ err.stdout = <<>>
    /\ out = child.stdout
    /\ Calls("Marshal") = {} /\ Calls("Write") = {}
    /\ stdout = <<>>

\* Run has returned after a process that wrote to both of its streams and
\* exited with a nonzero code.
C12_Witness ==
  /\ NonzeroExit
  /\ child.stdout # <<>>
  /\ child.stderr # <<>>

\* No image was pulled, no Bundle made, no runtime process started and
\* nothing written.
NothingDone ==
  /\ Calls("Image") = {}
  /\ Calls("Bundle") = {} /\ b = NoBundle
  /\ Calls("Output") = {} /\ child = NoChild
  /\ Calls("Marshal") = {} /\ Calls("Write") = {} /\ stdout = <<>>

\* C14: an input stream that cannot be read, that is empty, or that holds
\* bytes that are no Request never gets Run past the parsing of the image
\* reference: nothing is pulled, bundled, started or written at any time,
\* and Run returns an error: the read error, the unmarshal error, and for
\* the empty input, which decodes as the request with no image, the
\* reference error unless a store could not be made first.
C14_BadInputIsFatal ==
  /\ ~stdin.readable => NothingDone /\ (Returned => err.msg = errReadRequest)
  /\ (stdin.readable /\ stdin.bytes = <<>>) =>
       /\ NothingDone
       /\ Returned =>
            err.msg \in {errNewBundleStore, errNewDigestStore, errParseRef}
       /\ (Returned /\ Calls("ParseReference") # {}) => err.msg = errParseRef
  /\ (stdin.readable /\ ~Unmarshal(stdin.bytes, ZeroReq).ok) =>
       /\ NothingDone
       /\ Calls("NewDigest") = {} /\ Calls("Supported") = {}
       /\ Returned => err.msg = errUnmarshalRequest

\* Run has returned the reference error for an empty input stream.
C14_Witness ==
  /\ Returned
  /\ stdin.readable
  /\ stdin.bytes = <<>>
  /\ err.msg = errParseRef

\* C16: os.MkdirAll of the runtime root is called after s.Bundle returned a
\* Bundle and before the runtime process is started, which is given that
\* root; when MkdirAll fails no process is ever started, the Bundle gets its
\* Cleanup call, and Run returns the runtime-setup error.
C16_RuntimeRootBeforeSpawn ==
  /\ \A i \in Calls("MkdirAll") :
       /\ \E j \in Calls("Bundle") : j < i /\ trace[j].ok
       /\ \A j \in Calls("Output") : i < j
  /\ child.state # "none" =>
       Succeeded("MkdirAll") /\ child.root = ociRuntimeRoot
  /\ Calls("Output") # {} => Succeeded("MkdirAll")
  /\ FailedAt("MkdirAll") =>
       /\ child = NoChild
       /\ Calls("Output") = {}
       /\ Returned =>
            /\ err.msg = errMkRuntimeRootdir
            /\ \E i \in Calls("Cleanup") : trace[i].line = 134

\* Run has returned the runtime-setup error after the Bundle was made and
\* the runtime root could not be.
C16_Witness ==
  /\ Returned
  /\ BundleCreated
  /\ FailedAt("MkdirAll")
  /\ err.msg = errMkRuntimeRootdir

UpdateReturned == upc = "done"
\* The entries of the command's history that are calls of op.
UCalls(op) == {i \in DOMAIN utrace : utrace[i].op = op}
\* The read of the previous object found no object.
GetNotFound == \E i \in UCalls("Get") : utrace[i].error = StatusNotFound

BeforePatch == {"GetConfig", "NewForConfig", "Get", "ParseReference", "Marshal"}

\* At most one Patch is in the history, after one successful call of each
\* call before it and no failed one, and a line on the output is the
\* "updated" line of the object a successful Patch returned.
C17_PatchAfterAll ==
  /\ Cardinality(UCalls("Patch")) <= 1
  /\ \A i \in UCalls("Patch") :
       \A op \in BeforePatch : \E j \in UCalls(op) : j < i /\ utrace[j].ok
  /\ (\E j \in DOMAIN utrace : utrace[j].op \in BeforePatch /\ ~utrace[j].ok)
       => UCalls("Patch") = {}
  /\ uout # <<>> =>
       /\ \E i \in UCalls("Patch") : utrace[i].ok
       /\ uout = <<UpdatedLine(ucmd.kind, ucmd.name)>>

\* A step that changes the package of the stored object is the step of a
\* Patch that succeeds, and sets the package Run computed.
C17_PackageFrame ==
  kube'.package # kube.package =>
    /\ upc = "Patch"
    /\ utrace' = Append(utrace, UCall("Patch", Nil))
    /\ kube'.package = NewPkg(ParseReferenceOf(kube.package), ucmd.tag)

\* C17: an update command issues at most one Patch, and only after the
\* client was obtained, the previous object read, its package reference
\* parsed and the object encoded, each with success; when one of these fails
\* no Patch is issued and the package of the stored object stays as it was;
\* the "updated" line is printed only after a successful Patch.
C17_OnePatchAfterGetAndParse ==
  [](C17_PatchAfterAll) /\ [][C17_PackageFrame]_vars

\* The Function update command has returned after it patched the object to
\* a digest and printed the "updated" line.
C17_Witness ==
  /\ UpdateReturned
  /\ uerr = Nil
  /\ ucmd.kind = "function"
  /\ kube.package = <<"repo", "@", "sha256", "abc">>
  /\ uout = <<UpdatedLine("function", "pkg")>>
====
